---------------------------- MODULE Spec2Model ----------------------------
(***************************************************************************)
(* A model of src/root/app/ddns.py: the address resolver (custom command   *)
(* or public detection chain), the registrar client, the config store and  *)
(* the reconciler (setup / update / run).                                  *)
(*                                                                         *)
(* One process runs at a time (the program is single-threaded).  Every     *)
(* interaction with the outside world (a provider request, a dig or HTTP   *)
(* detection step, the custom command, a sleep) is one action whose        *)
(* outcome is chosen by the environment; pc is the position of the         *)
(* process in the code.  The config store is taken to be reliable: a file  *)
(* written by setup() is read back as written.  A provider request that    *)
(* fails is taken to have had no effect at the provider.                   *)
(***************************************************************************)
EXTENDS Naturals, Sequences, FiniteSets, TLC

(***************************************************************************)
(* Bounds of the model.                                                    *)
(***************************************************************************)
\* Number of times the program is started (main() invocations).
MaxRuns == 2
\* Number of records the provider accepts to create.
MaxCreated == 2

(***************************************************************************)
(* Values.                                                                 *)
(***************************************************************************)
\* Python's None (Optional[str] results, unset environment variables).
None == "None"

\* `not v` for an Optional[str]: None and the empty string are falsy.
Falsy(v) == v = None \/ v = ""

\* Text is a sequence of one-character strings while it is being trimmed.
Whitespace == {" ", "\n", "\t"}
Quote == {"\""}

RECURSIVE LStrip(_, _)
LStrip(s, cs) == IF s # <<>> /\ Head(s) \in cs THEN LStrip(Tail(s), cs) ELSE s

RECURSIVE RStrip(_, _)
RStrip(s, cs) ==
    IF s # <<>> /\ s[Len(s)] \in cs THEN RStrip(SubSeq(s, 1, Len(s) - 1), cs) ELSE s

\* str.strip() with cs = Whitespace, str.strip('"') with cs = Quote.
Strip(s, cs) == RStrip(LStrip(s, cs), cs)

\* The Python str of a sequence of characters.
RECURSIVE Join(_)
Join(s) == IF s = <<>> THEN "" ELSE Head(s) \o Join(Tail(s))

\* Two values a detector may report as the host's address: the longest IPv4
\* literal (15 characters) and an IPv6 literal of 16 characters.  The program
\* never parses them, and the provider is not taken to check a record's
\* content against its type.
V4 == <<"2","5","5",".","2","5","5",".","2","5","5",".","2","5","5">>
V6 == <<"2","0","0","1",":","d","b","8",":",":","1",":","2",":","3","4">>
Addresses == {Join(V4), Join(V6)}

NL == <<"\n">>
Quoted(s) == <<"\"">> \o s \o <<"\"">>

\* What a subprocess may print: nothing, a blank line, or an address line.
PlainOutputs == {<<>>, NL, V4 \o NL, V6 \o NL}
\* What dig +short prints for a TXT record: the text in double quotes.
TxtOutputs == {<<>>, NL, Quoted(<<>>) \o NL, Quoted(V4) \o NL, Quoted(V6) \o NL}
\* What a JSON body may hold in the field an extractor reads (a missing
\* field reads as None, which is as falsy as the empty string).
JsonFieldValues == {<<>>, V4, V6}

VARIABLES
    environ,     \* os.environ: the value of each variable read, None if unset
    files,       \* the files that exist, by path, with their text
    API_KEY, ZONE, SUBDOMAIN, RRTYPE, CUSTOM_LOOKUP_CMD,  \* configuration
    config,      \* the config store: absent (<< >>) or <<the persisted record>>
    records,     \* the provider's records of the zone, by record id
    pc,          \* position of the process in the code
    action,      \* the action main() was started with
    fn,          \* the reconciler function being executed
    runs,        \* number of times the program was started
    exitCode,    \* << >> while the process runs, <<status>> once it exited
    zone_id, record_id, dns_name, current_ip, dns_ip,     \* locals
    step,        \* index of the detection-chain step to try next
    attempts,    \* detection-chain steps tried by the current resolve call
    received,    \* what the last detection step or custom command received
    calls,       \* registrar calls made by the current setup()/update()
                 \* (the logs are emptied when the function is left)
    sent,        \* HTTP requests sent to the provider by these calls
    last_patch,  \* the address the last update() that ended patched the
                 \* record to, None if it made no successful patch
    elapsed,     \* minutes slept since update() was scheduled or last run
                 \* (not counted further once update() is due)
    config0,     \* the config store when the current setup()/update() began
    records0     \* the provider's records when it began

env == <<environ, files, API_KEY, ZONE, SUBDOMAIN, RRTYPE, CUSTOM_LOOKUP_CMD>>
locals == <<zone_id, record_id, dns_name, current_ip, dns_ip>>
vars == <<env, config, records, pc, action, fn, runs, exitCode, locals,
          step, attempts, received, calls, sent, last_patch, elapsed,
          config0, records0>>

(***************************************************************************)
(* Module-level configuration (lines 26-35).                               *)
(***************************************************************************)
\* The settings that may be given by a secret file or by the environment.
SettingNames == {"API_KEY", "ZONE", "SUBDOMAIN"}
\* The environment variable that names the secret file of a setting.
FileVar(name) == name \o "_FILE"

load_from_file(file_path, fs) ==
    IF ~Falsy(file_path) /\ file_path \in DOMAIN fs
    THEN Join(Strip(fs[file_path], Whitespace))
    ELSE None

\* Python's `a or b` on Optional[str].
Or(a, b) == IF Falsy(a) THEN b ELSE a

\* The value lines 33-35 give a setting.
Setting(name, environ_, fs) ==
    Or(load_from_file(environ_[FileVar(name)], fs), environ_[name])

(***************************************************************************)
(* Registrar client (lines 49-122).  `recs` is the provider's state and    *)
(* `ok` tells whether the HTTP request was answered with a success status; *)
(* api_call() turns every requests.RequestException into the empty dict,   *)
(* from which each operation reads its absent/false result.                *)
(***************************************************************************)
\* What may become of an HTTP request: no response (timeout, connection
\* error), a response with an error status, or a response with a success
\* status and a JSON body.
HttpOutcomes == {"transport_error", "http_error", "success"}

\* The dict api_call returns for a request that failed.
EmptyDict == "{}"

\* Mutant of api_call: a request that failed is sent a second time.
api_call_Retry(o) ==
    [resp |-> IF o = "success" THEN "body" ELSE EmptyDict,
     sent |-> IF o = "success" THEN 1 ELSE 2]

\* api_call (lines 49-66): one request is sent; raise_for_status() and the
\* except clause turn an error status and a transport error into {}.
api_call(o) ==
    [resp |-> IF o = "success" THEN "body" ELSE EmptyDict,
     sent |-> 1]

\* Whether the dict holds the provider's answer (the fields the operations
\* read: "success", "result").
Answered(resp) == resp # EmptyDict

\* The zones the account holds at the provider, with their ids.
ProviderZones == [z \in {"example.com"} |-> "z1"]

\* A registrar call as logged: operation, zone id, record id or name, and
\* whether the provider answered it with a success status.
Call(op, zone, target, ok) == [op |-> op, zone |-> zone, target |-> target, ok |-> ok]

WriteOps == {"create_dns_record", "update_dns_record", "delete_dns_record"}

\* Provider side: whether a request is answered with a success status.
ZoneFound(zone, ok) == ok /\ zone \in DOMAIN ProviderZones
PatchSucceeds(recs, record_id_, ok) == ok /\ record_id_ \in DOMAIN recs
ReadSucceeds(recs, record_id_, ok) == ok /\ record_id_ \in DOMAIN recs

\* Mutant of verify_token: a failed verification is taken for a success.
verify_token_True(ok) == TRUE

verify_token(ok) == ok

get_zone_id(zone, ok) ==
    IF ZoneFound(zone, ok) THEN ProviderZones[zone] ELSE None

\* The records the provider lists for ?type=rrtype&name=name.
MatchingRecords(recs, name, rrtype) ==
    {id \in DOMAIN recs : recs[id].name = name /\ recs[id].type = rrtype}

\* The ids get_dns_record_id may return: records[0] of the provider's list
\* (the provider chooses the order), or None for an empty or failed answer.
get_dns_record_id(recs, zone_id_, name, rrtype, ok) ==
    IF ok /\ MatchingRecords(recs, name, rrtype) # {}
    THEN MatchingRecords(recs, name, rrtype)
    ELSE {None}

\* The record present before the program ever ran, if any.
PreexistingId == "r0"
CreatedIds(recs) == DOMAIN recs \ {PreexistingId}
\* The id the provider gives the next record it creates.
NewRecordId(recs) == "r" \o ToString(Cardinality(CreatedIds(recs)) + 1)

\* The POST succeeds only if the request does and the provider accepts the
\* record: it refuses a record identical to one it holds (it accepts a second
\* record of the same name and type with another content), and it creates
\* at most MaxCreated records.
CreateSucceeds(recs, name, content, rrtype, ok) ==
    /\ ok
    /\ Cardinality(CreatedIds(recs)) < MaxCreated
    /\ \A id \in DOMAIN recs :
          recs[id] # [name |-> name, type |-> rrtype, content |-> content]

create_dns_record(recs, zone_id_, name, content, rrtype, ok) ==
    IF CreateSucceeds(recs, name, content, rrtype, ok)
    THEN NewRecordId(recs)
    ELSE None

RecordsAfterCreate(recs, name, content, rrtype, ok) ==
    IF CreateSucceeds(recs, name, content, rrtype, ok)
    THEN [id \in DOMAIN recs \cup {NewRecordId(recs)} |->
            IF id \in DOMAIN recs THEN recs[id]
            ELSE [name |-> name, type |-> rrtype, content |-> content]]
    ELSE recs

\* The PATCH succeeds only if the request does and the record exists.
update_dns_record(recs, zone_id_, record_id_, name, content, rrtype, ok) ==
    PatchSucceeds(recs, record_id_, ok)

\* Mutant of RecordsAfterUpdate: the request sent for the record is a DELETE.
RecordsAfterUpdate_Deletes(recs, record_id_, name, content, rrtype, ok) ==
    IF PatchSucceeds(recs, record_id_, ok)
    THEN [id \in DOMAIN recs \ {record_id_} |-> recs[id]]
    ELSE recs

RecordsAfterUpdate(recs, record_id_, name, content, rrtype, ok) ==
    IF PatchSucceeds(recs, record_id_, ok)
    THEN [recs EXCEPT ![record_id_] =
            [name |-> name, type |-> rrtype, content |-> content]]
    ELSE recs

delete_dns_record(recs, zone_id_, record_id_, ok) ==
    PatchSucceeds(recs, record_id_, ok)

RecordsAfterDelete(recs, record_id_, ok) ==
    IF PatchSucceeds(recs, record_id_, ok)
    THEN [id \in DOMAIN recs \ {record_id_} |-> recs[id]]
    ELSE recs

get_dns_record_ip(recs, zone_id_, record_id_, ok) ==
    IF ReadSucceeds(recs, record_id_, ok) THEN recs[record_id_].content ELSE None

(***************************************************************************)
(* Address resolver (lines 125-252).                                       *)
(***************************************************************************)
\* len(ip) <= 15 of the first IPv4 detector.
MaxIPv4Len == 15

\* The detection chain of a record type, in the order of the code.  kind:
\* "dig_txt" (stdout trimmed, quotes stripped), "dig" (stdout trimmed),
\* "http_text" (body trimmed), "http_json" (a field of the JSON body).
ChainSteps(rrtype) ==
    IF rrtype = "A" THEN
        << [kind |-> "dig_txt",   src |-> "whoami.cloudflare", filtered |-> TRUE],
           [kind |-> "dig",       src |-> "myip.opendns.com", filtered |-> FALSE],
           [kind |-> "http_json", src |-> "https://ipinfo.io", filtered |-> FALSE],
           [kind |-> "http_text", src |-> "https://api.ipify.org", filtered |-> FALSE],
           [kind |-> "http_text", src |-> "https://icanhazip.com", filtered |-> FALSE],
           [kind |-> "http_text", src |-> "https://checkip.amazonaws.com", filtered |-> FALSE],
           [kind |-> "http_json", src |-> "https://httpbin.org/ip", filtered |-> FALSE],
           [kind |-> "http_json", src |-> "https://api.myip.com", filtered |-> FALSE] >>
    ELSE IF rrtype = "AAAA" THEN
        << [kind |-> "dig_txt",   src |-> "whoami.cloudflare -6", filtered |-> FALSE],
           [kind |-> "http_text", src |-> "https://ifconfig.co", filtered |-> FALSE],
           [kind |-> "http_text", src |-> "https://api6.ipify.org", filtered |-> FALSE],
           [kind |-> "http_text", src |-> "https://icanhazip.com", filtered |-> FALSE],
           [kind |-> "http_text", src |-> "https://checkip.amazonaws.com", filtered |-> FALSE],
           [kind |-> "http_json", src |-> "https://httpbin.org/ip", filtered |-> FALSE],
           [kind |-> "http_json", src |-> "https://api.myip.com", filtered |-> FALSE] >>
    ELSE << >>

\* What the environment may answer to a step: an exception (timeout, HTTP
\* error status, undecodable body) or the text / JSON field received.
StepOutcomes(s) ==
    {[raised |-> TRUE, out |-> <<>>]} \cup
    [raised : {FALSE},
     out : CASE s.kind = "dig_txt"   -> TxtOutputs
            [] s.kind = "http_json" -> JsonFieldValues
            [] OTHER                -> PlainOutputs]

\* The value a step computes from what it received.
StepIp(s, out) ==
    CASE s.kind = "dig_txt"   -> Join(Strip(Strip(out, Whitespace), Quote))
      [] s.kind = "http_json" -> Join(out)
      [] OTHER                -> Join(Strip(out, Whitespace))

\* Mutant of StepAccepts: any value is returned, the empty one included.
StepAccepts_Any(s, ip) == TRUE

\* Mutant of StepAccepts: the length filter of the first IPv4 detector is
\* dropped.
StepAccepts_NoFilter(s, ip) == ~Falsy(ip)

\* The condition under which a step returns its value.
StepAccepts(s, ip) ==
    /\ ~Falsy(ip)
    /\ s.filtered => Len(ip) <= MaxIPv4Len

\* Mutant of NextStep: a step is skipped.
NextStep_Skip(k) == k + 2

\* The step tried after step k yielded nothing.
NextStep(k) == k + 1

\* What the custom command may print.
CustomOutcomes ==
    {[raised |-> TRUE, out |-> <<>>]} \cup [raised : {FALSE}, out : PlainOutputs]

custom_ip(out) == Join(Strip(out, Whitespace))

\* Mutant of UsesCustomCommand: the configured command is ignored.
UsesCustomCommand_Never(cmd) == FALSE

\* get_current_ip's choice of strategy.
UsesCustomCommand(cmd) == ~Falsy(cmd)

(***************************************************************************)
(* Reconciler helpers.                                                     *)
(***************************************************************************)
\* Mutant of get_dns_name: the subdomain is ignored.
get_dns_name_ZoneOnly(subdomain, zone) == zone

get_dns_name(subdomain, zone) ==
    IF ~Falsy(subdomain) THEN subdomain \o "." \o zone ELSE zone

\* Mutant of ConfigExists: the existence check is dropped.
ConfigExists_Always(store) == TRUE

\* os.path.exists("/config/cloudflare.conf") (line 304).
ConfigExists(store) == store # << >>

\* Mutant of NeedsUpdate: the record is never patched.
NeedsUpdate_Never(current_ip_, dns_ip_) == FALSE

\* Mutant of NeedsUpdate: the record is patched in every cycle.
NeedsUpdate_Always(current_ip_, dns_ip_) == TRUE

\* The comparison of update() (line 322).
NeedsUpdate(current_ip_, dns_ip_) == current_ip_ # dns_ip_

\* schedule.every(5).minutes and time.sleep(60), in minutes.
Period == 5
SleepMinutes == 1

\* Mutant of Due: the job is never found due.
Due_Never(e) == FALSE

\* Whether run_pending() finds the job due, `e` minutes after it was
\* scheduled or last run.
Due(e) == e >= Period

(***************************************************************************)
(* Initial states: the configuration, the config store left by an earlier  *)
(* installation (or none), and the provider's zone, empty or holding one   *)
(* record.  No process is running.                                         *)
(***************************************************************************)
NoRecords == [id \in {} |-> None]

\* No detection step or command has answered yet.
Nothing == [raised |-> FALSE, out |-> <<>>]

\* The config store: /config/cloudflare.conf absent, or holding one JSON object.
ConfigAbsent == << >>
Stored(c) == <<c>>
Load(store) == store[1]

StaleConfig ==
    [CF_ZONE_ID |-> "z1", CF_RECORD_ID |-> PreexistingId,
     CF_RECORD_NAME |-> "home.example.com"]

\* No file exists.
NoFiles == [path \in {} |-> << >>]

Init ==
    /\ API_KEY \in {None, "token"}
    /\ ZONE \in {None, "example.com", "missing.org"}
    /\ SUBDOMAIN \in {None, "home"}
    /\ environ = [n \in SettingNames \cup {FileVar(m) : m \in SettingNames} |->
                    CASE n = "API_KEY"   -> API_KEY
                      [] n = "ZONE"      -> ZONE
                      [] n = "SUBDOMAIN" -> SUBDOMAIN
                      [] OTHER           -> None]
    /\ files = NoFiles
    /\ RRTYPE \in {"A", "AAAA"}
    /\ CUSTOM_LOOKUP_CMD \in {None, "cmd"}
    /\ config \in {ConfigAbsent, Stored(StaleConfig)}
    /\ records \in {NoRecords} \cup
          {[id \in {PreexistingId} |->
               [name |-> n, type |-> RRTYPE, content |-> Join(V4)]] :
             n \in {"example.com", "home.example.com"}}
    /\ pc = "stopped"
    /\ action = None
    /\ fn = None
    /\ runs = 0
    /\ exitCode = << >>
    /\ zone_id = None /\ record_id = None /\ dns_name = None
    /\ current_ip = None /\ dns_ip = None
    /\ step = 0
    /\ attempts = << >>
    /\ received = Nothing
    /\ calls = << >>
    /\ sent = 0
    /\ last_patch = None
    /\ elapsed = 0
    /\ config0 = config
    /\ records0 = records

(***************************************************************************)
(* The import of the module: the settings are computed from the            *)
(* environment and the secret files before main() is called.               *)
(***************************************************************************)
\* Where the secret file of a setting is mounted.
SecretPath(name) == "/run/secrets/" \o name
\* What a secret file may hold: nothing, white space only, or a value.
FileTexts == {<< >>, <<" ", "\n">>, <<"f", "i", "l", "e", "\n">>}
\* What the environment may hold for a setting.
EnvValues == {None, "env"}

LoadInit ==
    /\ environ \in [SettingNames \cup {FileVar(m) : m \in SettingNames} ->
                       EnvValues \cup {SecretPath(m) : m \in SettingNames}]
    /\ \A n \in SettingNames :
          /\ environ[n] \in EnvValues
          /\ environ[FileVar(n)] \in {None, SecretPath(n)}
    /\ \E present \in SUBSET {SecretPath(m) : m \in SettingNames} :
          files \in [present -> FileTexts]
    /\ API_KEY = None /\ ZONE = None /\ SUBDOMAIN = None
    /\ RRTYPE = "A"
    /\ CUSTOM_LOOKUP_CMD = None
    /\ config = ConfigAbsent
    /\ records = NoRecords
    /\ pc = "import"
    /\ action = None
    /\ fn = None
    /\ runs = 0
    /\ exitCode = << >>
    /\ zone_id = None /\ record_id = None /\ dns_name = None
    /\ current_ip = None /\ dns_ip = None
    /\ step = 0
    /\ attempts = << >>
    /\ received = Nothing
    /\ calls = << >>
    /\ sent = 0
    /\ last_patch = None
    /\ elapsed = 0
    /\ config0 = config
    /\ records0 = records

\* Lines 33-35.
LoadSettings ==
    /\ pc = "import"
    /\ API_KEY' = Setting("API_KEY", environ, files)
    /\ ZONE' = Setting("ZONE", environ, files)
    /\ SUBDOMAIN' = Setting("SUBDOMAIN", environ, files)
    /\ pc' = "stopped"
    /\ UNCHANGED <<environ, files, RRTYPE, CUSTOM_LOOKUP_CMD, config, records,
                   action, fn, runs, exitCode, locals, step, attempts,
                   received, calls, sent, elapsed, last_patch, config0,
                   records0>>

LoadNext == LoadSettings

LoadSpec == LoadInit /\ [][LoadNext]_vars

(***************************************************************************)
(* Control flow shared by the actions.                                     *)
(***************************************************************************)
ClearLocals ==
    /\ zone_id' = None /\ record_id' = None /\ dns_name' = None
    /\ current_ip' = None /\ dns_ip' = None
    /\ step' = 0

\* sys.exit(code): the function is left with the exit status set.
Exit(code) ==
    /\ pc' = "finished"
    /\ exitCode' = <<code>>
    /\ UNCHANGED <<locals, step>>

\* A return statement, or the end of the function body.
FunctionReturns ==
    /\ pc' = "finished"
    /\ UNCHANGED <<exitCode, locals, step>>

\* Entry of setup() or update(): nothing called yet.
Enter(f) ==
    /\ fn' = f
    /\ pc' = f
    /\ calls' = << >>
    /\ sent' = 0
    /\ UNCHANGED last_patch
    /\ attempts' = << >>
    /\ received' = Nothing
    /\ config0' = config
    /\ records0' = records
    /\ ClearLocals

\* main() (lines 342-352): parse the action and dispatch.
Start(a) ==
    /\ pc = "stopped"
    /\ runs < MaxRuns
    /\ runs' = runs + 1
    /\ action' = a
    /\ exitCode' = << >>
    /\ elapsed' = 0
    /\ Enter(IF a = "update" THEN "update" ELSE "setup")
    /\ UNCHANGED <<env, config, records>>

(***************************************************************************)
(* get_current_ip and the strategies (lines 125-252).                      *)
(***************************************************************************)
\* get_current_ip (lines 245-249): choose the strategy.
GetCurrentIp ==
    /\ pc = "resolve"
    /\ IF UsesCustomCommand(CUSTOM_LOOKUP_CMD)
       THEN pc' = "custom" /\ step' = 0
       ELSE pc' = "chain" /\ step' = 1
    /\ attempts' = << >>
    /\ received' = Nothing
    /\ UNCHANGED <<env, config, records, action, fn, runs, exitCode, zone_id,
                   record_id, dns_name, current_ip, dns_ip, calls, sent,
                   elapsed, last_patch, config0, records0>>

\* get_custom_ip (lines 228-242).
GetCustomIp ==
    /\ pc = "custom"
    /\ \E o \in CustomOutcomes :
          /\ received' = o
          /\ current_ip' = IF ~o.raised /\ ~Falsy(custom_ip(o.out))
                           THEN custom_ip(o.out) ELSE None
    /\ pc' = "resolved"
    /\ UNCHANGED <<env, config, records, action, fn, runs, exitCode, zone_id,
                   record_id, dns_name, dns_ip, step, attempts, calls, sent,
                   elapsed, last_patch, config0, records0>>

\* One step of get_public_ip: a try block of lines 129-176 or 182-222.
ChainStep ==
    /\ pc = "chain"
    /\ step \in 1..Len(ChainSteps(RRTYPE))
    /\ LET s == ChainSteps(RRTYPE)[step] IN
       \E o \in StepOutcomes(s) :
          LET accepted == ~o.raised /\ StepAccepts(s, StepIp(s, o.out))
              ip == IF accepted THEN StepIp(s, o.out) ELSE None
          IN /\ attempts' = Append(attempts, [step |-> step, yielded |-> ip])
             /\ received' = o
             /\ current_ip' = ip
             /\ IF accepted
                THEN pc' = "resolved" /\ step' = step
                ELSE pc' = "chain" /\ step' = NextStep(step)
    /\ UNCHANGED <<env, config, records, action, fn, runs, exitCode, zone_id,
                   record_id, dns_name, dns_ip, calls, sent, elapsed,
                   last_patch, config0, records0>>

\* get_public_ip after its last step (lines 177-178, 223-225).
ChainExhausted ==
    /\ pc = "chain"
    /\ step > Len(ChainSteps(RRTYPE))
    /\ current_ip' = None
    /\ pc' = "resolved"
    /\ UNCHANGED <<env, config, records, action, fn, runs, exitCode, zone_id,
                   record_id, dns_name, dns_ip, step, attempts, received,
                   calls, sent, elapsed, last_patch, config0, records0>>

(***************************************************************************)
(* setup() (lines 260-300).                                                *)
(***************************************************************************)
\* Lines 261-263.
SetupRequire ==
    /\ pc = "setup"
    /\ IF Falsy(API_KEY) \/ Falsy(ZONE)
       THEN Exit(1)
       ELSE pc' = "verify" /\ UNCHANGED <<exitCode, locals, step>>
    /\ UNCHANGED <<env, config, records, action, fn, runs, attempts, received,
                   calls, sent, elapsed, last_patch, config0, records0>>

\* Lines 265-267.
SetupVerify ==
    /\ pc = "verify"
    /\ \E o \in HttpOutcomes :
          LET ok == Answered(api_call(o).resp) IN
          /\ sent' = sent + api_call(o).sent
          /\ calls' = Append(calls, Call("verify_token", None, None, ok))
          /\ IF ~verify_token(ok)
             THEN Exit(1)
             ELSE pc' = "zone" /\ UNCHANGED <<exitCode, locals, step>>
    /\ UNCHANGED <<env, config, records, action, fn, runs, attempts, received,
                   elapsed, last_patch, config0, records0>>

\* Lines 269-276.
SetupZone ==
    /\ pc = "zone"
    /\ \E o \in HttpOutcomes :
          LET ok == Answered(api_call(o).resp) IN
          LET zid == get_zone_id(ZONE, ok) IN
          /\ sent' = sent + api_call(o).sent
          /\ calls' = Append(calls, Call("get_zone_id", None, ZONE, ZoneFound(ZONE, ok)))
          /\ IF Falsy(zid)
             THEN Exit(1)
             ELSE /\ zone_id' = zid
                  /\ pc' = "resolve"
                  /\ UNCHANGED <<exitCode, record_id, dns_name, current_ip,
                                 dns_ip, step>>
    /\ UNCHANGED <<env, config, records, action, fn, runs, attempts, received,
                   elapsed, last_patch, config0, records0>>

\* Mutant of SetupFind: the record is created whatever the lookup returned.
SetupFind_AlwaysCreates ==
    /\ pc = "resolved" /\ fn = "setup"
    /\ IF Falsy(current_ip)
       THEN Exit(1) /\ UNCHANGED <<calls, sent>>
       ELSE \E o \in HttpOutcomes :
            LET ok == Answered(api_call(o).resp) IN
            \E rid \in get_dns_record_id(records, zone_id,
                                         get_dns_name(SUBDOMAIN, ZONE), RRTYPE, ok) :
               /\ dns_name' = get_dns_name(SUBDOMAIN, ZONE)
               /\ record_id' = rid
               /\ sent' = sent + api_call(o).sent
               /\ calls' = Append(calls, Call("get_dns_record_id", zone_id,
                                              get_dns_name(SUBDOMAIN, ZONE), ok))
               /\ pc' = "create"
               /\ UNCHANGED <<exitCode, zone_id, current_ip, dns_ip, step>>
    /\ UNCHANGED <<env, config, records, action, fn, runs, attempts, received,
                   elapsed, last_patch, config0, records0>>

\* Lines 277-284, after get_current_ip returned.
SetupFind ==
    /\ pc = "resolved" /\ fn = "setup"
    /\ IF Falsy(current_ip)
       THEN Exit(1) /\ UNCHANGED <<calls, sent>>
       ELSE \E o \in HttpOutcomes :
            LET ok == Answered(api_call(o).resp) IN
            \E rid \in get_dns_record_id(records, zone_id,
                                         get_dns_name(SUBDOMAIN, ZONE), RRTYPE, ok) :
               /\ dns_name' = get_dns_name(SUBDOMAIN, ZONE)
               /\ record_id' = rid
               /\ sent' = sent + api_call(o).sent
               /\ calls' = Append(calls, Call("get_dns_record_id", zone_id,
                                              get_dns_name(SUBDOMAIN, ZONE), ok))
               /\ pc' = IF Falsy(rid) THEN "create" ELSE "save"
               /\ UNCHANGED <<exitCode, zone_id, current_ip, dns_ip, step>>
    /\ UNCHANGED <<env, config, records, action, fn, runs, attempts, received,
                   elapsed, last_patch, config0, records0>>

\* Lines 285-289.
SetupCreate ==
    /\ pc = "create"
    /\ \E o \in HttpOutcomes :
          LET ok == Answered(api_call(o).resp) IN
          LET rid == create_dns_record(records, zone_id, dns_name, current_ip,
                                       RRTYPE, ok)
          IN /\ records' = RecordsAfterCreate(records, dns_name, current_ip,
                                              RRTYPE, ok)
             /\ sent' = sent + api_call(o).sent
             /\ calls' = Append(calls, Call("create_dns_record", zone_id, dns_name,
                               CreateSucceeds(records, dns_name, current_ip,
                                              RRTYPE, ok)))
             /\ IF Falsy(rid)
                THEN Exit(1)
                ELSE /\ record_id' = rid
                     /\ pc' = "save"
                     /\ UNCHANGED <<exitCode, zone_id, dns_name, current_ip,
                                    dns_ip, step>>
    /\ UNCHANGED <<env, config, action, fn, runs, attempts, received, elapsed,
                   last_patch, config0, records0>>

\* The record setup() persists (lines 293-297).
ManagedRecord(zone_id_, record_id_, dns_name_) ==
    [CF_ZONE_ID |-> zone_id_, CF_RECORD_ID |-> record_id_,
     CF_RECORD_NAME |-> dns_name_]

\* Mutant of SetupSave: setup() brings the record it found or created to the
\* resolved address before it persists it.
SetupSave_Patches ==
    /\ pc = "save"
    /\ config' = Stored(ManagedRecord(zone_id, record_id, dns_name))
    /\ \E o \in HttpOutcomes :
          LET ok == Answered(api_call(o).resp) IN
          /\ records' = RecordsAfterUpdate(records, record_id, dns_name,
                                           current_ip, RRTYPE, ok)
          /\ sent' = sent + api_call(o).sent
          /\ calls' = Append(calls,
                 Call("update_dns_record", zone_id, record_id,
                      PatchSucceeds(records, record_id, ok)))
    /\ FunctionReturns
    /\ UNCHANGED <<env, action, fn, runs, attempts, received, elapsed,
                   last_patch, config0, records0>>

\* Lines 291-300.
SetupSave ==
    /\ pc = "save"
    /\ config' = Stored(ManagedRecord(zone_id, record_id, dns_name))
    /\ FunctionReturns
    /\ UNCHANGED <<env, records, action, fn, runs, attempts, received, calls,
                   sent, elapsed, last_patch, config0, records0>>

(***************************************************************************)
(* update() (lines 303-329).                                               *)
(***************************************************************************)
\* Mutant of UpdateLoad: the record to update is looked up by its name at
\* the provider instead of being taken from the config store.
UpdateLoad_ByName ==
    /\ pc = "update"
    /\ IF ~ConfigExists(config)
       THEN FunctionReturns /\ UNCHANGED <<calls, sent>>
       ELSE \E o \in HttpOutcomes :
            LET ok == Answered(api_call(o).resp) IN
            \E rid \in get_dns_record_id(records, Load(config).CF_ZONE_ID,
                                         Load(config).CF_RECORD_NAME, RRTYPE, ok) :
               /\ zone_id' = Load(config).CF_ZONE_ID
               /\ record_id' = rid
               /\ dns_name' = Load(config).CF_RECORD_NAME
               /\ sent' = sent + api_call(o).sent
               /\ calls' = Append(calls,
                      Call("get_dns_record_id", Load(config).CF_ZONE_ID,
                           Load(config).CF_RECORD_NAME, ok))
               /\ pc' = "read"
               /\ UNCHANGED <<exitCode, current_ip, dns_ip, step>>
    /\ UNCHANGED <<env, config, records, action, fn, runs, attempts, received,
                   elapsed, last_patch, config0, records0>>

\* Lines 304-313.
UpdateLoad ==
    /\ pc = "update"
    /\ IF ~ConfigExists(config)
       THEN FunctionReturns
       ELSE IF config = ConfigAbsent
       THEN Exit(1)    \* open() raises FileNotFoundError, which nothing catches
       ELSE /\ zone_id' = Load(config).CF_ZONE_ID
            /\ record_id' = Load(config).CF_RECORD_ID
            /\ dns_name' = Load(config).CF_RECORD_NAME
            /\ pc' = "read"
            /\ UNCHANGED <<exitCode, current_ip, dns_ip, step>>
    /\ UNCHANGED <<env, config, records, action, fn, runs, attempts, received,
                   calls, sent, elapsed, last_patch, config0, records0>>

\* Mutant of UpdateRead: a failed read makes update() discard the config
\* store.
UpdateRead_DropsConfig ==
    /\ pc = "read"
    /\ \E o \in HttpOutcomes :
          LET ok == Answered(api_call(o).resp) IN
          LET ip == get_dns_record_ip(records, zone_id, record_id, ok) IN
          /\ dns_ip' = ip
          /\ sent' = sent + api_call(o).sent
          /\ calls' = Append(calls, Call("get_dns_record_ip", zone_id, record_id,
                                         ReadSucceeds(records, record_id, ok)))
          /\ config' = IF ip = None THEN ConfigAbsent ELSE config
    /\ pc' = "resolve"
    /\ UNCHANGED <<env, records, action, fn, runs, exitCode, zone_id,
                   record_id, dns_name, current_ip, step, attempts, received,
                   elapsed, last_patch, config0, records0>>

\* Line 315.
UpdateRead ==
    /\ pc = "read"
    /\ \E o \in HttpOutcomes :
          LET ok == Answered(api_call(o).resp) IN
          LET ip == get_dns_record_ip(records, zone_id, record_id, ok) IN
          /\ dns_ip' = ip
          /\ sent' = sent + api_call(o).sent
          /\ calls' = Append(calls, Call("get_dns_record_ip", zone_id, record_id,
                                         ReadSucceeds(records, record_id, ok)))
    /\ pc' = "resolve"
    /\ UNCHANGED <<env, config, records, action, fn, runs, exitCode, zone_id,
                   record_id, dns_name, current_ip, step, attempts, received,
                   elapsed, last_patch, config0, records0>>

\* Lines 318-329, after get_current_ip returned.
UpdateCompare ==
    /\ pc = "resolved" /\ fn = "update"
    /\ IF Falsy(current_ip)
       THEN UNCHANGED <<records, calls, sent>>
       ELSE IF NeedsUpdate(current_ip, dns_ip)
            THEN \E o \in HttpOutcomes :
                   LET ok == Answered(api_call(o).resp) IN
                   /\ records' = RecordsAfterUpdate(records, record_id, dns_name,
                                                    current_ip, RRTYPE, ok)
                   /\ sent' = sent + api_call(o).sent
                   /\ calls' = Append(calls,
                          Call("update_dns_record", zone_id, record_id,
                               PatchSucceeds(records, record_id, ok)))
            ELSE UNCHANGED <<records, calls, sent>>
    /\ FunctionReturns
    /\ UNCHANGED <<env, config, action, fn, runs, attempts, received, elapsed,
                   last_patch, config0, records0>>

(***************************************************************************)
(* main() and run() (lines 332-352).                                       *)
(***************************************************************************)
\* The function is left: the process ends (sys.exit, or main() returning
\* after setup or update), or run() goes on (lines 334-337 after setup(),
\* line 339 after update()).
Return ==
    /\ pc = "finished"
    /\ IF exitCode # << >>
       THEN pc' = "stopped" /\ UNCHANGED <<exitCode, elapsed>>
       ELSE IF action = "run"
            THEN /\ pc' = IF fn = "setup" THEN "pending" ELSE "sleep"
                 /\ elapsed' = 0
                 /\ UNCHANGED exitCode
            ELSE pc' = "stopped" /\ exitCode' = <<0>> /\ UNCHANGED elapsed
    /\ ClearLocals
    /\ calls' = << >> /\ sent' = 0
    /\ last_patch' =
          IF /\ fn = "update"
             /\ calls # << >>
             /\ calls[Len(calls)].op = "update_dns_record"
             /\ calls[Len(calls)].ok
          THEN current_ip
          ELSE None
    /\ attempts' = << >> /\ received' = Nothing
    /\ config0' = config /\ records0' = records
    /\ UNCHANGED <<env, config, records, action, fn, runs>>

\* schedule.run_pending() (line 338): update() is due once the period has
\* elapsed since it was scheduled or last run.
RunPending ==
    /\ pc = "pending"
    /\ IF Due(elapsed)
       THEN Enter("update")
       ELSE /\ pc' = "sleep"
            /\ UNCHANGED <<fn, calls, sent, attempts, received, last_patch,
                           config0, records0, locals, step>>
    /\ UNCHANGED <<env, config, records, action, runs, exitCode, elapsed>>

\* time.sleep(60) (line 339).
Sleep ==
    /\ pc = "sleep"
    /\ elapsed' = IF elapsed >= Period THEN elapsed ELSE elapsed + SleepMinutes
    /\ pc' = "pending"
    /\ UNCHANGED <<env, config, records, action, fn, runs, exitCode, locals,
                   step, attempts, received, calls, sent, last_patch, config0,
                   records0>>

Next ==
    \/ \E a \in {"setup", "update", "run"} : Start(a)
    \/ SetupRequire
    \/ SetupVerify
    \/ SetupZone
    \/ GetCurrentIp
    \/ GetCustomIp
    \/ ChainStep
    \/ ChainExhausted
    \/ SetupFind
    \/ SetupCreate
    \/ SetupSave
    \/ UpdateLoad
    \/ UpdateRead
    \/ UpdateCompare
    \/ Return
    \/ RunPending
    \/ Sleep

Spec == Init /\ [][Next]_vars

\* The process is never starved while it has a step to take.
FairSpec == Spec /\ WF_vars(Next)

(***************************************************************************)
(* Properties.                                                             *)
(***************************************************************************)
IsWrite(c) == c.op \in WriteOps
\* The write calls (create / update / delete) among the calls `cs`.
Writes(cs) == SelectSeq(cs, IsWrite)

IsRead(c) == c.op = "get_dns_record_ip"
Reads(cs) == SelectSeq(cs, IsRead)

\* update() has run to its end (and has not yet returned to its caller).
UpdateDone == pc = "finished" /\ fn = "update"
\* setup() has run to its end or called sys.exit.
SetupDone == pc = "finished" /\ fn = "setup"

\* The address the provider held for the stored record when the cycle read
\* it, or None if the read failed.
AddressRead ==
    IF Reads(calls)[1].ok
    THEN records0[Load(config0).CF_RECORD_ID].content
    ELSE None

\* C1: in an update() cycle with a persisted ManagedRecord and a resolved
\* address, update_dns_record is called exactly once, for the stored zone
\* and record, if the resolved address differs from the address read from
\* the provider, and no write call is made if the two are equal.
C1_UpdateExactlyWhenDifferent ==
    (UpdateDone /\ config0 # ConfigAbsent /\ ~Falsy(current_ip)) =>
        /\ Len(Reads(calls)) = 1
        /\ IF current_ip # AddressRead
           THEN /\ Len(Writes(calls)) = 1
                /\ Writes(calls)[1].op = "update_dns_record"
                /\ Writes(calls)[1].zone = Load(config0).CF_ZONE_ID
                /\ Writes(calls)[1].target = Load(config0).CF_RECORD_ID
           ELSE Writes(calls) = << >>

\* A cycle that read one address, resolved another and patched the record.
C1_Witness ==
    /\ UpdateDone /\ config0 # ConfigAbsent
    /\ Reads(calls)[1].ok
    /\ ~Falsy(current_ip) /\ current_ip # AddressRead
    /\ Len(Writes(calls)) = 1 /\ Writes(calls)[1].ok
    /\ records[Load(config0).CF_RECORD_ID].content = current_ip

\* C3: update() started with no config store returns normally without any
\* registrar call, without resolving an address and without touching the
\* config store.
C3_NoConfigNoCalls ==
    (fn = "update" /\ config0 = ConfigAbsent) =>
        /\ pc \in {"update", "finished", "stopped"}
        /\ calls = << >>
        /\ attempts = << >> /\ received = Nothing /\ current_ip = None
        /\ config = ConfigAbsent
        /\ records = records0
        /\ exitCode \in {<< >>, <<0>>}

\* update() has ended with no config store present.
C3_Witness == UpdateDone /\ config0 = ConfigAbsent /\ exitCode = << >>

\* The public detection chain is the strategy in use.
ChainInUse == CUSTOM_LOOKUP_CMD = None

\* C4: the steps of the public detection chain are attempted strictly in
\* order, each at most once; every step before the last attempted one
\* yielded nothing, and no step is attempted after one that yielded a value.
C4_ChainOrder ==
    /\ Len(attempts) <= Len(ChainSteps(RRTYPE))
    /\ \A i \in 1..Len(attempts) :
          /\ attempts[i].step = i
          /\ i < Len(attempts) => attempts[i].yielded = None
    /\ pc = "chain" =>
          /\ step = Len(attempts) + 1
          /\ attempts # << >> => attempts[Len(attempts)].yielded = None

\* Step 4 of the 8 IPv4 steps is the first to yield a value.
C4_Witness ==
    /\ RRTYPE = "A" /\ pc = "resolved"
    /\ Len(attempts) = 4
    /\ attempts[4].yielded \in Addresses
    /\ current_ip = attempts[4].yielded

\* What a step yields from what it received: nothing for an error, for an
\* empty value and for a value its filter rejects.
Yield(s, o) ==
    IF o.raised THEN None
    ELSE IF StepIp(s, o.out) = "" THEN None
    ELSE IF s.filtered /\ Len(StepIp(s, o.out)) > 15 THEN None
    ELSE StepIp(s, o.out)

\* C5: the chain goes on only after a step that yielded nothing, returns
\* the value of the first step that yields one, and returns None only when
\* every step was tried and yielded nothing; an error in a step does not
\* leave the chain (the process goes on).
C5_FirstAcceptedValue ==
    LET steps == ChainSteps(RRTYPE)
        k == Len(attempts)
    IN /\ (pc = "chain" /\ k >= 1) =>
             /\ Yield(steps[k], received) = None
             /\ current_ip = None
             /\ exitCode = << >>
       /\ (pc = "resolved" /\ ChainInUse) =>
             /\ k >= 1
             /\ \A i \in 1..(k - 1) : attempts[i].yielded = None
             /\ current_ip = Yield(steps[k], received)
             /\ current_ip = None => k = Len(steps)
             /\ exitCode = << >>

\* Every step of the chain failed, the last one with an error.
C5_Witness ==
    /\ pc = "resolved" /\ ChainInUse
    /\ current_ip = None
    /\ Len(attempts) = Len(ChainSteps(RRTYPE))
    /\ received.raised

\* C6: for type A the first detector accepts its trimmed, quote-stripped
\* response only if it is non-empty and at most 15 characters long;
\* otherwise the chain goes on with the second detector, which accepts its
\* trimmed response whenever it is non-empty, whatever its length.
C6_LengthFilter ==
    (RRTYPE = "A" /\ ChainInUse /\ pc \in {"chain", "resolved"}) =>
        /\ Len(attempts) = 1 =>
              LET t == Strip(Strip(received.out, Whitespace), Quote) IN
              IF ~received.raised /\ Len(t) >= 1 /\ Len(t) <= 15
              THEN pc = "resolved" /\ current_ip = Join(t)
              ELSE pc = "chain" /\ step = 2 /\ current_ip = None
        /\ Len(attempts) = 2 =>
              LET t == Strip(received.out, Whitespace) IN
              IF ~received.raised /\ Len(t) >= 1
              THEN pc = "resolved" /\ current_ip = Join(t)
              ELSE pc = "chain" /\ step = 3 /\ current_ip = None

\* The first detector received a quoted 16-character value and the chain
\* went on to the second detector.
C6_Witness ==
    /\ RRTYPE = "A" /\ ChainInUse
    /\ pc = "chain" /\ step = 2
    /\ received = [raised |-> FALSE, out |-> Quoted(V6) \o NL]

\* The fully-qualified name of the target: subdomain.zone, or the zone.
TargetName == IF SUBDOMAIN # None THEN SUBDOMAIN \o "." \o ZONE ELSE ZONE

\* The provider's records for the target (zone, fqdn, type).
TargetRecords(recs) ==
    {id \in DOMAIN recs : recs[id].name = TargetName /\ recs[id].type = RRTYPE}

CallMade(op) == \E i \in 1..Len(calls) : calls[i].op = op
CallSucceeded(op) == \E i \in 1..Len(calls) : calls[i].op = op /\ calls[i].ok
CallFailed(op) == \E i \in 1..Len(calls) : calls[i].op = op /\ ~calls[i].ok

\* C2: a setup() run against a provider that holds a record for the target
\* (zone, fqdn, type) leaves exactly one such record, and a run that
\* completes has adopted the id of the existing record without calling
\* create_dns_record.
C2_SetupNeverDuplicates ==
    (fn = "setup" /\ Cardinality(TargetRecords(records0)) = 1) =>
        /\ Cardinality(TargetRecords(records)) = 1
        /\ (SetupDone /\ exitCode = << >>) =>
              /\ ~CallMade("create_dns_record")
              /\ Load(config).CF_RECORD_ID \in TargetRecords(records0)

\* setup() got past verification and zone lookup, resolved an address, and
\* the provider held no record for the target when it started.
SetupPremise ==
    /\ SetupDone
    /\ zone_id # None
    /\ ~Falsy(current_ip)
    /\ TargetRecords(records0) = {}

\* Exactly one record was created, for the target name with the resolved
\* address, and {zone id, its id, fqdn} was persisted.
CreatedAndPersisted ==
    LET new == DOMAIN records \ DOMAIN records0 IN
    /\ Cardinality(new) = 1
    /\ TargetRecords(records) = new
    /\ \A id \in new :
          /\ records[id] =
                [name |-> TargetName, type |-> RRTYPE, content |-> current_ip]
          /\ config = Stored([CF_ZONE_ID |-> ProviderZones[ZONE],
                              CF_RECORD_ID |-> id,
                              CF_RECORD_NAME |-> TargetName])
    /\ \A id \in DOMAIN records0 : records[id] = records0[id]
    /\ Len(Writes(calls)) = 1
    /\ exitCode = << >>

\* C7 as stated: a setup() run with verified credentials, a zone found, an
\* address resolved and no record for the target creates exactly one record
\* and persists the ManagedRecord.
C7_SetupCreatesAndPersists == SetupPremise => CreatedAndPersisted

\* C7 as amended: the same, provided the create_dns_record call succeeds;
\* when it fails setup() exits with status 1, nothing is created and the
\* config store is left as it was.
C7_Amended ==
    SetupPremise =>
        IF CallSucceeded("create_dns_record")
        THEN CreatedAndPersisted
        ELSE /\ CallFailed("create_dns_record")
             /\ exitCode = <<1>>
             /\ records = records0
             /\ config = config0

\* setup() created home.example.com and overwrote the stale config store.
C7_Witness ==
    /\ SetupPremise /\ CallSucceeded("create_dns_record")
    /\ SUBDOMAIN = "home"
    /\ config0 = Stored(StaleConfig)
    /\ config # config0
    /\ Load(config).CF_RECORD_NAME = "home.example.com"

\* The registrar calls whose failure is fatal to setup().
FatalOps == {"verify_token", "get_zone_id", "create_dns_record"}

\* C8: setup() exits with status 1 exactly when credentials or zone are
\* missing, verification fails, the zone is not found, no address is
\* resolved or the record cannot be created; the failed call is the last
\* one made, no call is made twice, and the config store is left as it was.
C8_FatalExits ==
    /\ SetupDone =>
          /\ exitCode \in {<< >>, <<1>>}
          /\ exitCode = <<1>> <=>
                \/ Falsy(API_KEY) \/ Falsy(ZONE)
                \/ \E op \in FatalOps : CallFailed(op)
                \/ zone_id # None /\ Falsy(current_ip)
          /\ (Falsy(API_KEY) \/ Falsy(ZONE)) => calls = << >>
          /\ (zone_id # None /\ Falsy(current_ip)) => Len(calls) = 2
    /\ fn = "setup" =>
          /\ \A i, j \in 1..Len(calls) : i # j => calls[i].op # calls[j].op
          /\ \A i \in 1..(Len(calls) - 1) : calls[i].op \in FatalOps => calls[i].ok
          /\ Len(Writes(calls)) <= 1
          /\ exitCode = <<1>> => config = config0 /\ pc \in {"finished", "stopped"}

\* setup() failed to create the record and left a stale config store alone.
C8_Witness ==
    /\ SetupDone /\ exitCode = <<1>>
    /\ CallFailed("create_dns_record")
    /\ config0 = Stored(StaleConfig) /\ config = config0

\* C10: an update() cycle with a soft failure before its comparison (no
\* config store, no address resolved, or the read of the stored address
\* failed) issues no write call and leaves provider and config store alone.
C10_SoftFailureNoSideEffects ==
    (/\ UpdateDone
     /\ \/ config0 = ConfigAbsent
        \/ Falsy(current_ip)
        \/ CallFailed("get_dns_record_ip")) =>
        /\ Writes(calls) = << >>
        /\ records = records0
        /\ config = config0

\* The loop of run() is being executed.
InRunLoop == action = "run" /\ fn = "update"

\* C9: under run(), update() is entered only from the loop, after setup()
\* succeeded, and only when the period has elapsed; setup() is not run
\* again; a fatal setup() ends the process before any update(); no update()
\* cycle ends the process, and update() is entered again and again.
C9_RunLoop ==
    /\ [](InRunLoop => exitCode = << >> /\ pc # "stopped" /\ ConfigExists(config))
    /\ []((action = "run" /\ exitCode # << >>) => (fn = "setup" /\ exitCode = <<1>>))
    /\ [][InRunLoop => (action' = "run" /\ fn' = "update")]_vars
    /\ [][(action' = "run" /\ pc' = "update" /\ pc # "update") =>
            (pc = "pending" /\ elapsed = Period)]_vars
    /\ (action = "run" /\ SetupDone /\ exitCode = << >>) ~> (pc = "update")
    /\ (action = "run" /\ UpdateDone) ~> (pc = "update")

\* An update() cycle of run() has ended with a failed patch, and the loop
\* goes on.
C9_Witness ==
    /\ action = "run" /\ UpdateDone
    /\ CallFailed("update_dns_record")
    /\ exitCode = << >>

\* What the custom command yields from what it printed: nothing for an
\* error and for an output that is empty once trimmed.
CustomYield(o) ==
    IF o.raised \/ Strip(o.out, Whitespace) = << >>
    THEN None
    ELSE Join(Strip(o.out, Whitespace))

\* C11: one strategy is tried per resolve call.  With a custom lookup
\* command configured only the command is executed, once: no step of the
\* public detection chain is attempted, and an error or an empty output
\* makes the result a failure (None).  The detection chain runs only when
\* no custom command is configured, and then the command is not executed.
C11_SingleStrategy ==
    /\ [](CUSTOM_LOOKUP_CMD # None =>
            /\ pc # "chain"
            /\ attempts = << >>
            /\ pc = "resolved" => current_ip = CustomYield(received))
    /\ [](CUSTOM_LOOKUP_CMD = None =>
            /\ pc # "custom"
            /\ pc = "resolved" => attempts # << >>)
    /\ [][pc = "custom" => pc' = "resolved"]_vars
    /\ [][pc' = "custom" => pc = "resolve"]_vars
    /\ [][(pc' = "chain" /\ pc # "chain") => pc = "resolve"]_vars

\* The custom command printed a blank line: the resolve call failed and no
\* detection step was tried.
C11_Witness ==
    /\ CUSTOM_LOOKUP_CMD = "cmd"
    /\ pc = "resolved"
    /\ received = [raised |-> FALSE, out |-> NL]
    /\ current_ip = None
    /\ attempts = << >>

\* The registrar operations that address a record by its id.
ByIdOps == {"get_dns_record_ip", "update_dns_record", "delete_dns_record"}

\* C12: every registrar call of an update() cycle addresses the zone id and
\* record id held in the config store when the cycle began; update() makes
\* no lookup by name and creates no record, also when the stored record is
\* not (or no longer) held by the provider.
C12_UpdateTargetsStoredIds ==
    (fn = "update" /\ config0 # ConfigAbsent) =>
        /\ \A i \in 1..Len(calls) :
              /\ calls[i].op \in ByIdOps
              /\ calls[i].op # "create_dns_record"
              /\ calls[i].zone = Load(config0).CF_ZONE_ID
              /\ calls[i].target = Load(config0).CF_RECORD_ID
        /\ pc \in {"read", "resolve", "custom", "chain", "resolved", "finished"} =>
              /\ zone_id = Load(config0).CF_ZONE_ID
              /\ record_id = Load(config0).CF_RECORD_ID
        /\ DOMAIN records = DOMAIN records0

\* An update() cycle whose stored record the provider does not hold read and
\* patched by the stored id, and both calls failed.
C12_Witness ==
    /\ UpdateDone /\ config0 # ConfigAbsent
    /\ Load(config0).CF_RECORD_ID \notin DOMAIN records0
    /\ Len(calls) = 2
    /\ calls[2].op = "update_dns_record" /\ ~calls[2].ok
    /\ records = records0


\* C13: the config store is written only by setup(), at its last step;
\* update() leaves it as it found it whatever the cycle's outcome, and so
\* does every step of the loop of run() after setup().
C13_ConfigWrittenOnlyBySetup ==
    /\ [][config' # config => (fn = "setup" /\ pc = "save")]_vars
    /\ [](fn = "update" => config = config0)
    /\ [][InRunLoop => config' = config]_vars

\* A cycle of run() patched the record and left alone the config store that
\* setup() had written.
C13_Witness ==
    /\ action = "run" /\ UpdateDone
    /\ CallSucceeded("update_dns_record")
    /\ config = config0
    /\ config # ConfigAbsent /\ config # Stored(StaleConfig)


\* The value the module holds for a setting.
Used(name) ==
    CASE name = "API_KEY"   -> API_KEY
      [] name = "ZONE"      -> ZONE
      [] name = "SUBDOMAIN" -> SUBDOMAIN

\* C14: once the module is loaded, a setting whose secret file is
\* configured and was read holds the value read from the file (its trimmed
\* text), whatever the environment holds for it; a file that is empty once
\* trimmed leaves the setting empty.
C14_SecretFilePrecedence ==
    pc # "import" =>
        \A n \in SettingNames :
           LET loaded == load_from_file(environ[FileVar(n)], files) IN
           loaded # None =>
              \/ Used(n) = loaded
              \/ Falsy(loaded) /\ Falsy(Used(n))


\* The operations of the calls `cs`, in the order they were made.
OpsOf(cs) == [i \in 1..Len(cs) |-> cs[i].op]

\* The step taken issues a write call.
WriteIssued == Len(Writes(calls')) > Len(Writes(calls))
\* The step taken issues the lookup of the record by name.
LookupIssued ==
    Len(calls') = Len(calls) + 1 /\ calls'[Len(calls')].op = "get_dns_record_id"

\* C15: setup() makes at most one write call per run, a create_dns_record
\* issued only after, in this order, verification succeeded, the zone id
\* was found, an address was resolved and the lookup of the record returned
\* none; a run in which verification, zone lookup or address resolution
\* fails makes no write call and leaves the provider's records alone.
C15_CreateOnceInOrder ==
    /\ [](fn = "setup" =>
            /\ Len(Writes(calls)) <= 1
            /\ \A i \in 1..Len(calls) : calls[i].op # "update_dns_record"
            /\ (\/ CallFailed("verify_token")
                \/ CallFailed("get_zone_id")
                \/ (SetupDone /\ zone_id # None /\ Falsy(current_ip))) =>
                  /\ Writes(calls) = << >>
                  /\ records = records0)
    /\ [][(fn = "setup" /\ LookupIssued) =>
            /\ pc = "resolved"
            /\ ~Falsy(current_ip)
            /\ OpsOf(calls) = <<"verify_token", "get_zone_id">>]_vars
    /\ [][(fn = "setup" /\ WriteIssued) =>
            /\ pc = "create"
            /\ OpsOf(calls) = <<"verify_token", "get_zone_id", "get_dns_record_id">>
            /\ calls[1].ok /\ calls[2].ok
            /\ zone_id = ProviderZones[ZONE]
            /\ ~Falsy(current_ip)
            /\ record_id = None
            /\ calls'[Len(calls')].op = "create_dns_record"]_vars

\* setup() created the record after a lookup that was answered and found
\* no record.
C15_Witness ==
    /\ fn = "setup" /\ pc = "save"
    /\ Len(calls) = 4
    /\ calls[3].ok
    /\ calls[4].op = "create_dns_record" /\ calls[4].ok
    /\ TargetRecords(records0) = {}


\* The result of every registrar operation for a request that failed, on
\* the arguments at hand.
ResultsOfFailedRequest ==
    /\ ~Answered(api_call("transport_error").resp)
    /\ ~Answered(api_call("http_error").resp)
    /\ verify_token(FALSE) = FALSE
    /\ get_zone_id(ZONE, FALSE) = None
    /\ get_dns_record_id(records, zone_id, get_dns_name(SUBDOMAIN, ZONE),
                         RRTYPE, FALSE) = {None}
    /\ create_dns_record(records, zone_id, dns_name, current_ip, RRTYPE,
                         FALSE) = None
    /\ update_dns_record(records, zone_id, record_id, dns_name, current_ip,
                         RRTYPE, FALSE) = FALSE
    /\ delete_dns_record(records, zone_id, record_id, FALSE) = FALSE
    /\ get_dns_record_ip(records, zone_id, record_id, FALSE) = None

\* C16: every registrar call sends exactly one HTTP request; a call whose
\* request fails (no response, or an error status) returns its absent or
\* false result to the reconciler, which goes on from it: update() keeps
\* going with no address read and ends normally after a failed patch,
\* setup() takes a failed lookup for "no record" and exits through its own
\* sys.exit(1) on a failed verification, zone lookup or creation.
C16_OneRequestAbsentOnFailure ==
    /\ sent = Len(calls)
    /\ ResultsOfFailedRequest
    /\ fn = "update" =>
          /\ exitCode \in {<< >>, <<0>>}
          /\ (pc \in {"resolve", "custom", "chain", "resolved", "finished"}
              /\ CallFailed("get_dns_record_ip")) => dns_ip = None
          /\ (Len(calls) = 2 /\ ~calls[2].ok) =>
                /\ pc = "finished"
                /\ records = records0
    /\ fn = "setup" =>
          /\ (pc = "create" /\ CallFailed("get_dns_record_id")) =>
                record_id = None /\ exitCode = << >>
          /\ (\E op \in FatalOps : CallFailed(op)) =>
                /\ pc \in {"finished", "stopped"}
                /\ exitCode = <<1>>
                /\ ~calls[Len(calls)].ok
                /\ records = records0

\* An update() cycle whose read and patch of a record the provider holds
\* both failed, after two requests, and which ended normally.
C16_Witness ==
    /\ UpdateDone /\ config0 # ConfigAbsent
    /\ Load(config0).CF_RECORD_ID \in DOMAIN records0
    /\ Len(calls) = 2 /\ sent = 2
    /\ ~calls[1].ok /\ ~calls[2].ok
    /\ dns_ip = None
    /\ exitCode = << >>


\* The step taken ends a resolve call.
ResolveEnds == pc' = "resolved" /\ pc # "resolved"
\* The step taken makes a registrar call.
CallIssued == Len(calls') = Len(calls) + 1

\* In the step taken the resolver, if it answers, returns the address a,
\* and the registrar call, if one is made, succeeds.
Favourable(a) ==
    /\ ResolveEnds => current_ip' = a
    /\ CallIssued => calls'[Len(calls')].ok

\* The provider holds the address a for the record of the config store.
Published(a) ==
    /\ config # ConfigAbsent
    /\ Load(config).CF_RECORD_ID \in DOMAIN records
    /\ records[Load(config).CF_RECORD_ID].content = a

\* C17: in the loop of run(), entered after a successful setup(), if from
\* some point on the resolver always returns the address a and every
\* provider call succeeds, then from some point on the provider holds a for
\* the managed record and no step issues a write call any more.
C17_Convergence ==
    \A a \in Addresses :
        (<>InRunLoop /\ <>[][Favourable(a)]_vars) =>
            /\ <>[](InRunLoop /\ Published(a))
            /\ <>[][~WriteIssued]_vars

\* A cycle of run() found the adopted record, patched by an earlier cycle,
\* to hold the resolved address and made no write call.
C17_Witness ==
    /\ InRunLoop /\ UpdateDone
    /\ Load(config).CF_RECORD_ID = PreexistingId
    /\ Published(Join(V6))
    /\ current_ip = Join(V6)
    /\ Len(calls) = 1 /\ calls[1].ok

\* C18: an update() cycle that resolves the address the previous update()
\* cycle patched the record to makes no write call and leaves the
\* provider's records as they were.
C18_UpdateIdempotent ==
    (UpdateDone /\ last_patch # None /\ current_ip = last_patch) =>
        /\ Writes(calls) = << >>
        /\ records = records0


\* setup() found a record for the target and took its id.
Adopted ==
    /\ fn = "setup" /\ pc \in {"save", "finished"}
    /\ exitCode = << >>
    /\ CallMade("get_dns_record_id")
    /\ ~CallMade("create_dns_record")

\* The step taken is the patch of record id by an update() cycle.
PatchedByUpdate(id) ==
    /\ fn = "update" /\ pc = "resolved"
    /\ WriteIssued
    /\ calls'[Len(calls')].op = "update_dns_record"
    /\ calls'[Len(calls')].target = id

\* C19: a setup() that adopts an existing record makes no write call and
\* leaves the provider's records as they were, the adopted record holding
\* its former content also when setup() resolved another address; a record
\* the provider holds is changed by no step other than the patch of an
\* update() cycle.
C19_AdoptionMakesNoWrite ==
    /\ [](Adopted =>
            /\ Writes(calls) = << >>
            /\ records = records0
            /\ record_id \in TargetRecords(records0)
            /\ pc = "finished" => Load(config).CF_RECORD_ID = record_id)
    /\ [][\A id \in DOMAIN records :
            /\ id \in DOMAIN records'
            /\ records'[id] # records[id] => PatchedByUpdate(id)]_vars

\* setup() adopted a record that holds another address than the one it
\* resolved.
C19_Witness ==
    /\ Adopted /\ pc = "finished"
    /\ record_id = PreexistingId
    /\ records[record_id].content # current_ip
    /\ config = Stored(ManagedRecord(zone_id, record_id, dns_name))


\* C20: whatever actions are run (setup, update, run), and whether or not
\* a managed record is persisted, no delete_dns_record call is made and the
\* provider loses no record.
C20_NoDeleteEver ==
    /\ [](\A i \in 1..Len(calls) : calls[i].op # "delete_dns_record")
    /\ [](DOMAIN records0 \subseteq DOMAIN records)
    /\ [][DOMAIN records \subseteq DOMAIN records']_vars

\* The process ended after an update() that patched the managed record,
\* which the provider still holds.
C20_Witness ==
    /\ pc = "stopped" /\ action = "update" /\ exitCode = <<0>>
    /\ last_patch # None
    /\ config # ConfigAbsent
    /\ Load(config).CF_RECORD_ID \in DOMAIN records


=============================================================================
